---- MODULE Spec2Model ----
(***************************************************************************)
(* Model of finder/index.go: the IndexFinder of graphite-clickhouse.       *)
(*                                                                         *)
(* Strings and byte slices are sequences of one-character strings.  A Go   *)
(* slice that may be nil is a record [isNil, bytes] (or [isNil, rows]).    *)
(* Directions are the uint8 values of config.IndexAuto/Direct/Reversed.    *)
(***************************************************************************)
EXTENDS Integers, Sequences, FiniteSets

VARIABLES
    dailyEnabled,   \* IndexFinder.dailyEnabled
    confReverse,    \* IndexFinder.confReverse
    confReverses,   \* IndexFinder.confReverses
    reverse,        \* IndexFinder.reverse
    body,           \* IndexFinder.body
    useDaily,       \* IndexFinder.useDaily
    op,             \* the last completed call on the instance
    ret,            \* the values its useReverse calls returned, in call order
    rows,           \* what it returned, if it was List or Series
    unreversed,     \* whether it applied ReverseBytes
    arg,            \* the arguments of the last Execute: [query, from, until]
    err,            \* the error the last Execute returned
    sentQ,          \* the last query handed to clickhouse.Query
    sent,           \* how many queries clickhouse.Query has received
    execErr,        \* the error clickhouse.Query returned last
    executes,       \* how many Execute calls have completed
    first           \* the first direction resolution: [done, by, query, value]

vars == <<dailyEnabled, confReverse, confReverses, reverse, body, useDaily,
          op, arg, ret, err, rows, unreversed, sentQ, sent, execErr,
          executes, first>>

conf == <<dailyEnabled, confReverse, confReverses>>

\* ------------------------------------------------------------------ bounds

MaxPatLen == 3
MaxRules == 2
MaxBodyLen == 3
MaxExecutes == 2

\* --------------------------------------------------------------- constants

ReverseLevelOffset == 10000
TreeLevelOffset == 20000
ReverseTreeLevelOffset == 30000

\* "1970-02-12" as a day number since 1970-01-01 (see FormatDate)
DefaultTreeDate == 42

queryAuto == 0
queryDirect == 1
queryReversed == 2

SecondsPerDay == 86400

\* config.IndexReverse: the map from a configured name to its uint8 value;
\* a name that is not a key maps to the zero value
IndexReverse(name) ==
    CASE name = "direct" -> queryDirect
      [] name = "reversed" -> queryReversed
      [] OTHER -> queryAuto

\* ----------------------------------------------------------------- strings

Sep == "."
NewLine == "\n"
WildcardBytes == {"*", "?", "[", "]", "{", "}"}

SeqsUpTo(S, n) == UNION {[1..k -> S] : k \in 0..n}

\* strings.Count(s, c) for a one-byte c
Count(s, c) == Cardinality({i \in 1..Len(s) : s[i] = c})

\* strings.HasPrefix
HasPrefix(s, p) == Len(p) <= Len(s) /\ SubSeq(s, 1, Len(p)) = p

\* strings.HasSuffix
HasSuffix(s, p) == Len(p) <= Len(s) /\ SubSeq(s, Len(s) - Len(p) + 1, Len(s)) = p

\* Regexp.FindStringIndex(s) != nil, for a regex that is a literal
FindStringIndex(lit, s) ==
    \E i \in 0..(Len(s) - Len(lit)) : SubSeq(s, i + 1, i + Len(lit)) = lit

\* where.IndexWildcard: 0-based index of the first wildcard byte, or -1
IndexWildcard(s) ==
    LET W == {i \in 1..Len(s) : s[i] \in WildcardBytes}
    IN IF W = {} THEN -1 ELSE (CHOOSE i \in W : \A j \in W : i <= j) - 1

\* where.IndexLastWildcard: 0-based index of the last wildcard byte, or -1
IndexLastWildcard(s) ==
    LET W == {i \in 1..Len(s) : s[i] \in WildcardBytes}
    IN IF W = {} THEN -1 ELSE (CHOOSE i \in W : \A j \in W : i >= j) - 1

\* byte-order inversion
Inverted(s) == [i \in 1..Len(s) |-> s[Len(s) + 1 - i]]

\* ReverseBytes: byte-order inversion in which a final separator stays final
ReverseBytes(s) ==
    IF Len(s) > 0 /\ s[Len(s)] = Sep
    THEN Inverted(SubSeq(s, 1, Len(s) - 1)) \o <<Sep>>
    ELSE Inverted(s)

\* ReverseString: the same reversal on a string
ReverseString(s) == ReverseBytes(s)

\* time.Unix(t, 0).Format("2006-01-02"): the calendar day of t, as a day number
FormatDate(t) == t \div SecondsPerDay

\* -------------------------------------------------------------- input sets

PatternBytes == {"a", Sep, "*"}
Patterns == SeqsUpTo(PatternBytes, MaxPatLen)

NoRegex == [present |-> FALSE, lit |-> <<>>]
Regex(lit) == [present |-> TRUE, lit |-> lit]
Rule(p, s, re, d) == [Prefix |-> p, Suffix |-> s, Regex |-> re, Reverse |-> d]

RulePool ==
    { Rule(<<"a">>, <<>>, NoRegex, "reversed"),
      Rule(<<>>, <<"*">>, NoRegex, "direct"),
      Rule(<<>>, <<>>, Regex(<<Sep>>), "reversed"),
      Rule(<<"a">>, <<"a">>, Regex(<<"*">>), "direct"),
      Rule(<<>>, <<>>, NoRegex, "auto"),
      Rule(<<>>, <<>>, NoRegex, "reversed") }

RuleLists == SeqsUpTo(RulePool, MaxRules)

ReverseNames == {"auto", "direct", "reversed"}

\* ------------------------------------------------------ direction resolver

RECURSIVE checkReversesFrom(_, _)
\* the loop of checkReverses, from rule i on
checkReversesFrom(i, query) ==
    IF i > Len(confReverses) THEN confReverse
    ELSE LET rule == confReverses[i] IN
         IF Len(rule.Prefix) > 0 /\ ~HasPrefix(query, rule.Prefix)
         THEN checkReversesFrom(i + 1, query)
         ELSE IF Len(rule.Suffix) > 0 /\ ~HasSuffix(query, rule.Suffix)
         THEN checkReversesFrom(i + 1, query)
         ELSE IF rule.Regex.present /\ ~FindStringIndex(rule.Regex.lit, query)
         THEN checkReversesFrom(i + 1, query)
         ELSE IndexReverse(rule.Reverse)

RECURSIVE checkReversesLast(_, _, _)
checkReversesLast(i, query, found) ==
    IF i > Len(confReverses) THEN found
    ELSE LET rule == confReverses[i] IN
         IF \/ Len(rule.Prefix) > 0 /\ ~HasPrefix(query, rule.Prefix)
            \/ Len(rule.Suffix) > 0 /\ ~HasSuffix(query, rule.Suffix)
            \/ rule.Regex.present /\ ~FindStringIndex(rule.Regex.lit, query)
         THEN checkReversesLast(i + 1, query, found)
         ELSE checkReversesLast(i + 1, query, IndexReverse(rule.Reverse))

\* checkReverses, changed to let the last matching rule win
checkReversesLastWins(query) == checkReversesLast(1, query, confReverse)

RECURSIVE checkReversesAutoFrom(_, _)
checkReversesAutoFrom(i, query) ==
    IF i > Len(confReverses) THEN queryAuto
    ELSE LET rule == confReverses[i] IN
         IF \/ Len(rule.Prefix) > 0 /\ ~HasPrefix(query, rule.Prefix)
            \/ Len(rule.Suffix) > 0 /\ ~HasSuffix(query, rule.Suffix)
            \/ rule.Regex.present /\ ~FindStringIndex(rule.Regex.lit, query)
         THEN checkReversesAutoFrom(i + 1, query)
         ELSE IndexReverse(rule.Reverse)

\* checkReverses, changed to fall back to Auto when no rule matches
checkReversesNoConf(query) == checkReversesAutoFrom(1, query)

checkReverses(query) == checkReversesFrom(1, query)

\* useReverse, changed to resolve again on every call
useReverseNoMemo(rev, query) ==
    LET c == checkReverses(query)
        w == IndexWildcard(query)
        l == IndexLastWildcard(query)
        r == IF c # queryAuto THEN c
             ELSE IF w = -1 THEN queryDirect
             ELSE IF Count(SubSeq(query, 1, w), Sep)
                       < Count(SubSeq(query, l + 1, Len(query)), Sep)
             THEN queryReversed ELSE queryDirect
    IN [reverse |-> r, ret |-> r = queryReversed]

\* useReverse, changed to reverse also when the two counts are equal
useReverseLeq(rev, query) ==
    LET c == checkReverses(query)
        w == IndexWildcard(query)
        l == IndexLastWildcard(query)
        r == IF rev # queryAuto THEN rev
             ELSE IF c # queryAuto THEN c
             ELSE IF w = -1 THEN queryDirect
             ELSE IF Count(SubSeq(query, 1, w), Sep)
                       <= Count(SubSeq(query, l + 1, Len(query)), Sep)
             THEN queryReversed ELSE queryDirect
    IN [reverse |-> r, ret |-> r = queryReversed]

RECURSIVE useReverseRec(_, _)
\* useReverse on an instance whose reverse field is rev: the field's new
\* value and the returned bool
useReverseRec(rev, query) ==
    IF rev = queryDirect THEN [reverse |-> rev, ret |-> FALSE]
    ELSE IF rev = queryReversed THEN [reverse |-> rev, ret |-> TRUE]
    ELSE LET c == checkReverses(query) IN
         IF c # queryAuto THEN useReverseRec(c, query)
         ELSE LET w == IndexWildcard(query) IN
              IF w = -1 THEN useReverseRec(queryDirect, query)
              ELSE LET firstWildcardNode == Count(SubSeq(query, 1, w), Sep)
                       l == IndexLastWildcard(query)
                       lastWildcardNode == Count(SubSeq(query, l + 1, Len(query)), Sep)
                   IN IF firstWildcardNode < lastWildcardNode
                      THEN useReverseRec(queryReversed, query)
                      ELSE useReverseRec(queryDirect, query)

useReverse(rev, query) == useReverseRec(rev, query)

\* the record of the first resolution, after a call of useReverse(query) made
\* by the operation by, which left the field at r
FirstAfter(by, query, r) ==
    IF first.done THEN first
    ELSE [done |-> TRUE, by |-> by, query |-> query, value |-> r]

\* ------------------------------------------------------- predicate builder

\* where, changed to take the separator count for the level
whereNoPlusOne(query, levelOffset) ==
    [Level |-> Count(query, Sep) + levelOffset, Path |-> query]

\* IndexFinder.where: the Level and Path conditions of the predicate
where(query, levelOffset) ==
    [Level |-> (Count(query, Sep) + 1) + levelOffset, Path |-> query]

\* Execute up to the call of clickhouse.Query, changed to exchange the two
\* tree offsets
ExecutePlanSwapped(query, from, until) ==
    LET u1 == useReverse(reverse, query)
        daily == dailyEnabled /\ from > 0 /\ until > 0
        u2 == useReverse(u1.reverse, query)
        levelOffset == IF daily
                       THEN (IF u2.ret THEN ReverseLevelOffset ELSE 0)
                       ELSE (IF u2.ret THEN TreeLevelOffset ELSE ReverseTreeLevelOffset)
        u3 == useReverse(u2.reverse, query)
        q == IF u3.ret THEN ReverseString(query) ELSE query
        date == IF daily
                THEN [kind |-> "range", from |-> FormatDate(from), until |-> FormatDate(until)]
                ELSE [kind |-> "eq", from |-> DefaultTreeDate, until |-> DefaultTreeDate]
    IN [reverse |-> u3.reverse, useDaily |-> daily, ret |-> <<u1.ret, u2.ret, u3.ret>>,
        query |-> [where |-> where(q, levelOffset), date |-> date,
                   levelOffset |-> levelOffset, reversed |-> u3.ret]]

\* Execute up to the call of clickhouse.Query: the fields it leaves, what its
\* useReverse calls returned and the query it composes
ExecutePlan(query, from, until) ==
    LET u1 == useReverse(reverse, query)
        daily == dailyEnabled /\ from > 0 /\ until > 0
        u2 == useReverse(u1.reverse, query)
        levelOffset == IF daily
                       THEN (IF u2.ret THEN ReverseLevelOffset ELSE 0)
                       ELSE (IF u2.ret THEN ReverseTreeLevelOffset ELSE TreeLevelOffset)
        u3 == useReverse(u2.reverse, query)
        q == IF u3.ret THEN ReverseString(query) ELSE query
        date == IF daily
                THEN [kind |-> "range", from |-> FormatDate(from), until |-> FormatDate(until)]
                ELSE [kind |-> "eq", from |-> DefaultTreeDate, until |-> DefaultTreeDate]
    IN [reverse |-> u3.reverse, useDaily |-> daily, ret |-> <<u1.ret, u2.ret, u3.ret>>,
        query |-> [where |-> where(q, levelOffset), date |-> date,
                   levelOffset |-> levelOffset, reversed |-> u3.ret]]

\* -------------------------------------------------------- response decoder

NilBody == [isNil |-> TRUE, bytes |-> <<>>]
Bytes(b) == [isNil |-> FALSE, bytes |-> b]

RECURSIVE Split(_)
\* bytes.Split(s, []byte{'\n'})
Split(s) ==
    LET N == {i \in 1..Len(s) : s[i] = NewLine} IN
    IF N = {} THEN <<s>>
    ELSE LET i == CHOOSE k \in N : \A j \in N : k <= j
         IN <<SubSeq(s, 1, i - 1)>> \o Split(SubSeq(s, i + 1, Len(s)))

RECURSIVE compactNoShift(_, _, _, _)
\* the filtering loop of makeList, changed to never move a row
compactNoShift(rs, i, skip, onlySeries) ==
    IF i >= Len(rs) THEN [rows |-> rs, skip |-> skip]
    ELSE LET row == rs[i + 1] IN
         IF Len(row) = 0 THEN compactNoShift(rs, i + 1, skip + 1, onlySeries)
         ELSE IF onlySeries /\ row[Len(row)] = Sep
         THEN compactNoShift(rs, i + 1, skip + 1, onlySeries)
         ELSE compactNoShift(rs, i + 1, skip, onlySeries)

RECURSIVE compact(_, _, _, _)
\* the filtering loop of makeList from index i (0-based) on, with skip rows
\* dropped so far
compact(rs, i, skip, onlySeries) ==
    IF i >= Len(rs) THEN [rows |-> rs, skip |-> skip]
    ELSE LET row == rs[i + 1] IN
         IF Len(row) = 0 THEN compact(rs, i + 1, skip + 1, onlySeries)
         ELSE IF onlySeries /\ row[Len(row)] = Sep
         THEN compact(rs, i + 1, skip + 1, onlySeries)
         ELSE IF skip > 0
         THEN compact([rs EXCEPT ![i - skip + 1] = row], i + 1, skip, onlySeries)
         ELSE compact(rs, i + 1, skip, onlySeries)

\* makeList, changed to drop the check for a nil body
makeListNoNilCheck(onlySeries) ==
    LET c == compact(Split(body.bytes), 0, 0, onlySeries)
        kept == SubSeq(c.rows, 1, Len(c.rows) - c.skip)
        u == useReverse(reverse, <<>>)
    IN [rows |-> [isNil |-> FALSE,
                  rows |-> IF u.ret THEN [i \in 1..Len(kept) |-> ReverseBytes(kept[i])]
                           ELSE kept],
        reverse |-> u.reverse, ret |-> <<u.ret>>, unreversed |-> u.ret]

\* makeList: the returned rows, the reverse field it leaves, what its
\* useReverse call returned and whether it applied ReverseBytes
makeList(onlySeries) ==
    IF body.isNil
    THEN [rows |-> [isNil |-> FALSE, rows |-> <<>>],
          reverse |-> reverse, ret |-> <<>>, unreversed |-> FALSE]
    ELSE LET c == compact(Split(body.bytes), 0, 0, onlySeries)
             kept == SubSeq(c.rows, 1, Len(c.rows) - c.skip)
             u == useReverse(reverse, <<>>)
         IN [rows |-> [isNil |-> FALSE,
                       rows |-> IF u.ret
                                THEN [i \in 1..Len(kept) |-> ReverseBytes(kept[i])]
                                ELSE kept],
             reverse |-> u.reverse, ret |-> <<u.ret>>, unreversed |-> u.ret]

\* ----------------------------------------------------------------- actions

NoQuery == [where |-> [Level |-> 0, Path |-> <<>>],
            date |-> [kind |-> "none", from |-> 0, until |-> 0],
            levelOffset |-> 0, reversed |-> FALSE]

\* no rows returned
NoRows == [isNil |-> TRUE, rows |-> <<>>]

\* NewIndex: the instance built from configuration (reverse name, rules);
\* reverse, body and useDaily are not set and keep Go's zero values
NewIndex(daily, reverseName, reverses) ==
    /\ dailyEnabled = daily
    /\ confReverse = IndexReverse(reverseName)
    /\ confReverses = reverses
    /\ reverse = 0
    /\ body = NilBody
    /\ useDaily = FALSE
    /\ op = "NewIndex"
    /\ arg = [query |-> <<>>, from |-> 0, until |-> 0]
    /\ ret = <<>>
    /\ err = "nil"
    /\ rows = NoRows
    /\ unreversed = FALSE
    /\ sentQ = NoQuery
    /\ sent = 0
    /\ execErr = "nil"
    /\ executes = 0
    /\ first = [done |-> FALSE, by |-> "", query |-> <<>>, value |-> 0]

\* a call of useReverse(query) on its own
UseReverseCall(query) ==
    LET u == useReverse(reverse, query) IN
    /\ reverse' = u.reverse
    /\ ret' = <<u.ret>>
    /\ op' = "useReverse"
    /\ rows' = NoRows
    /\ unreversed' = FALSE
    /\ first' = FirstAfter("useReverse", query, u.reverse)
    /\ UNCHANGED <<conf, body, useDaily, arg, err, sentQ, sent, execErr, executes>>

\* Execute, changed to send the query again when it fails
ExecuteRetry(query, from, until, out) ==
    LET p == ExecutePlan(query, from, until) IN
    /\ executes < MaxExecutes
    /\ reverse' = p.reverse
    /\ useDaily' = p.useDaily
    /\ ret' = p.ret
    /\ sentQ' = p.query
    /\ sent' = IF out.err # "nil" THEN sent + 2 ELSE sent + 1
    /\ execErr' = out.err
    /\ body' = out.body
    /\ err' = out.err
    /\ op' = "Execute"
    /\ arg' = [query |-> query, from |-> from, until |-> until]
    /\ executes' = executes + 1
    /\ first' = FirstAfter("Execute", query, p.reverse)
    /\ rows' = NoRows
    /\ unreversed' = FALSE
    /\ UNCHANGED conf

\* Execute(ctx, query, from, until), with out what clickhouse.Query returns
Execute(query, from, until, out) ==
    LET p == ExecutePlan(query, from, until) IN
    /\ executes < MaxExecutes
    /\ reverse' = p.reverse
    /\ useDaily' = p.useDaily
    /\ ret' = p.ret
    /\ sentQ' = p.query
    /\ sent' = sent + 1
    /\ execErr' = out.err
    /\ body' = out.body
    /\ err' = out.err
    /\ op' = "Execute"
    /\ arg' = [query |-> query, from |-> from, until |-> until]
    /\ executes' = executes + 1
    /\ first' = FirstAfter("Execute", query, p.reverse)
    /\ rows' = NoRows
    /\ unreversed' = FALSE
    /\ UNCHANGED conf

\* the state a List or Series call leaves, from what makeList did
Listed(name, m) ==
    /\ rows' = m.rows
    /\ reverse' = m.reverse
    /\ ret' = m.ret
    /\ unreversed' = m.unreversed
    /\ op' = name
    /\ first' = IF m.ret = <<>> THEN first ELSE FirstAfter(name, <<>>, m.reverse)
    /\ UNCHANGED <<conf, body, useDaily, arg, err, sentQ, sent, execErr, executes>>

List == Listed("List", makeList(FALSE))

Series == Listed("Series", makeList(TRUE))

\* ---------------------------------------------------------- specifications

Errors == {"nil", "timeout"}
TimeRanges == { <<0, 0>>, <<0, SecondsPerDay>>, <<1, 0>>, <<1, SecondsPerDay>> }

ExecPatterns ==
    { <<"a", Sep, "b", Sep, "c">>,
      <<"a", Sep, "*", Sep, "c", Sep, "d">>,
      <<"a", Sep, "*">>,
      <<"*", Sep, "b">> }

SampleRuleLists ==
    { <<>>,
      << Rule(<<"a", Sep, "b">>, <<>>, NoRegex, "reversed"),
         Rule(<<>>, <<"*">>, NoRegex, "direct") >> }

SampleBodies ==
    { <<>>,
      <<Sep, "a", NewLine>>,
      <<"a", Sep, "b", Sep, NewLine, "a", Sep, "b", Sep, "c", NewLine>> }

\* what clickhouse.Query may return: a body (nil or not) and an error (nil or not)
QueryOutcomes == [body : {NilBody} \cup {Bytes(b) : b \in SampleBodies}, err : Errors]

\* the life of one instance: Execute, List and Series in any order
Init == \E daily \in BOOLEAN, name \in ReverseNames, rl \in SampleRuleLists :
            NewIndex(daily, name, rl)

ExecuteAny == \E q \in ExecPatterns, t \in TimeRanges, out \in QueryOutcomes :
                  Execute(q, t[1], t[2], out)

Next == ExecuteAny \/ List \/ Series

Spec == Init /\ [][Next]_vars

\* direction resolution alone, over every rule list and pattern of the bounds
InitResolve == \E name \in ReverseNames, rl \in RuleLists : NewIndex(FALSE, name, rl)

NextResolve == \E q \in Patterns : UseReverseCall(q)

SpecResolve == InitResolve /\ [][NextResolve]_vars

\* decoding alone, over every response body of the bounds
BodyBytes == {"a", Sep, NewLine}
Bodies == SeqsUpTo(BodyBytes, MaxBodyLen)
DecodePatterns == { <<"*", Sep, "a">> }
DecodeOutcomes == [body : {NilBody} \cup {Bytes(b) : b \in Bodies}, err : {"nil"}]

InitDecode == \E name \in ReverseNames : NewIndex(FALSE, name, <<>>)

ExecuteDecode == \E q \in DecodePatterns, out \in DecodeOutcomes : Execute(q, 0, 0, out)

NextDecode == ExecuteDecode \/ List \/ Series

SpecDecode == InitDecode /\ [][NextDecode]_vars

\* ------------------------------------------------- the claims' vocabulary

Min(S) == CHOOSE x \in S : \A y \in S : x <= y
Max(S) == CHOOSE x \in S : \A y \in S : x >= y

RECURSIVE Sorted(_)
\* the elements of a set of integers, ascending
Sorted(S) == IF S = {} THEN <<>> ELSE <<Min(S)>> \o Sorted(S \ {Min(S)})

\* the pieces of s between the occurrences of the byte c, left to right
Pieces(s, c) ==
    LET cuts == {0} \cup {i \in 1..Len(s) : s[i] = c}
        ends == {i \in 1..Len(s) : s[i] = c} \cup {Len(s) + 1}
        from == Sorted(cuts)
    IN [k \in 1..Len(from) |->
           SubSeq(s, from[k] + 1, Min({e \in ends : e > from[k]}) - 1)]

NonEmpty(l) == Len(l) > 0
NotDirectory(l) == l[Len(l)] # Sep
IsSeries(l) == NonEmpty(l) /\ NotDirectory(l)

\* a rule applies to a pattern: each field it has matches
RuleMatches(r, q) ==
    /\ r.Prefix = <<>> \/ HasPrefix(q, r.Prefix)
    /\ r.Suffix = <<>> \/ HasSuffix(q, r.Suffix)
    /\ ~r.Regex.present \/ FindStringIndex(r.Regex.lit, q)

Matching(q) == {i \in 1..Len(confReverses) : RuleMatches(confReverses[i], q)}

\* what the rules and the configuration say for q: the direction of the first
\* rule that applies, the configured direction when none does
Ruled(q) ==
    IF Matching(q) = {} THEN confReverse
    ELSE IndexReverse(confReverses[Min(Matching(q))].Reverse)

\* the direction the wildcard positions of q call for, by segments
ByWildcards(q) ==
    LET segs == Pieces(q, Sep)
        wild == {k \in 1..Len(segs) : \E i \in 1..Len(segs[k]) : segs[k][i] \in WildcardBytes}
    IN IF wild = {} THEN queryDirect
       ELSE IF Min(wild) - 1 < Len(segs) - Max(wild) THEN queryReversed
       ELSE queryDirect

ListOps == {"List", "Series"}

\* ------------------------------------------------------------------ claims

\* C1: once the direction field is Forward or Reversed it never changes and
\* never returns to Auto, and every later resolution, whatever its pattern,
\* returns the value the first resolution gave.
C1_DirectionIsFixed ==
    /\ [][reverse # queryAuto => reverse' = reverse]_vars
    /\ [](first.done =>
            /\ reverse = first.value
            /\ reverse \in {queryDirect, queryReversed}
            /\ \A i \in 1..Len(ret) : ret[i] = (first.value = queryReversed))

C1_SecondPatternWouldDiffer ==
    /\ op = "Execute" /\ executes = 2
    /\ arg.query # first.query
    /\ useReverse(queryAuto, arg.query).reverse # reverse

\* C2, as stated: with a configured direction of Forward or Reversed the
\* resolution returns the configured direction for every pattern and every
\* rule list.
C2_ConfiguredAlwaysWins ==
    (first.done /\ confReverse \in {queryDirect, queryReversed})
        => first.value = confReverse

\* C2, amended: with a configured direction of Forward or Reversed the
\* resolution returns the configured direction for every pattern that no
\* reverse rule matches; the rules are consulted whatever the configured
\* direction, and a matching rule that names Forward or Reversed overrides it.
C2_ConfiguredWinsWhenNoRuleMatches ==
    (first.done /\ confReverse \in {queryDirect, queryReversed}) =>
        /\ Matching(first.query) = {} => first.value = confReverse
        /\ (Matching(first.query) # {} /\ Ruled(first.query) # queryAuto)
               => first.value = Ruled(first.query)

C2_RulesPresentNoneMatches ==
    /\ first.done /\ confReverse = queryReversed
    /\ Len(confReverses) = 2 /\ Matching(first.query) = {}
    /\ ByWildcards(first.query) = queryDirect
    /\ reverse = queryReversed

\* C3: the Level of the emitted predicate is the separator count of the
\* pattern plus 1 plus the offset of the table (Reversed and daily 10000,
\* Forward and not daily 20000, Reversed and not daily 30000, Forward and
\* daily 0), and the date clause is the range [from, until] exactly when
\* useDaily = dailyEnabled /\ from > 0 /\ until > 0, else the sentinel date.
C3_LevelAndDate ==
    op = "Execute" =>
        LET daily == dailyEnabled /\ arg.from > 0 /\ arg.until > 0
            rev == reverse = queryReversed
            offset == CASE rev /\ daily -> 10000
                        [] ~rev /\ ~daily -> 20000
                        [] rev /\ ~daily -> 30000
                        [] OTHER -> 0
        IN /\ useDaily = daily
           /\ sentQ.where.Level = Count(arg.query, Sep) + 1 + offset
           /\ daily => sentQ.date = [kind |-> "range", from |-> FormatDate(arg.from),
                                     until |-> FormatDate(arg.until)]
           /\ ~daily => sentQ.date = [kind |-> "eq", from |-> DefaultTreeDate,
                                      until |-> DefaultTreeDate]

C3_ReversedDailyQuery ==
    /\ op = "Execute" /\ useDaily /\ reverse = queryReversed
    /\ arg.query = <<"a", Sep, "*", Sep, "c", Sep, "d">>
    /\ sentQ.where.Level = 10004
    /\ sentQ.date.kind = "range" /\ sentQ.date.until = 1

\* C4: with configured direction Auto and no rule matching the pattern, the
\* first resolution gives Forward for a pattern without wildcard, and else
\* Reversed exactly when fewer separators precede the first wildcard than
\* follow the last one (Forward when the counts are equal).
C4_WildcardHeuristic ==
    (first.done /\ confReverse = queryAuto /\ Matching(first.query) = {})
        => first.value = ByWildcards(first.query)

C4_ReversedByHeuristic ==
    /\ first.done /\ confReverse = queryAuto
    /\ confReverses # <<>> /\ Matching(first.query) = {}
    /\ first.query = <<"*", Sep, "a">>
    /\ reverse = queryReversed

\* C5: Series() never returns an entry whose last byte is the separator, for
\* every response body and both directions.
C5_SeriesHasNoDirectory ==
    op = "Series" => \A i \in 1..Len(rows.rows) :
                        NonEmpty(rows.rows[i]) /\ NotDirectory(rows.rows[i])

\* C6: List() returns the non-empty lines of the body in order, each
\* un-reversed when the direction is Reversed; Series() returns those of them
\* that do not end in the separator; the result is never nil, also for a nil
\* or empty body.
C6_DecodedRows ==
    LET lines == Pieces(body.bytes, NewLine)
        want == IF op = "Series" THEN SelectSeq(lines, IsSeries)
                ELSE SelectSeq(lines, NonEmpty)
    IN op \in ListOps =>
        /\ ~rows.isNil
        /\ rows.rows = [i \in 1..Len(want) |->
                           IF reverse = queryReversed THEN ReverseBytes(want[i])
                           ELSE want[i]]

C6_DirectoryDroppedBeforeSeries ==
    /\ op = "Series" /\ ~body.isNil
    /\ body.bytes = <<Sep, NewLine, "a">>
    /\ rows.rows = << <<"a">> >>

\* C7: every Execute sends exactly one query, failed or not, and returns the
\* executor's error unchanged; List and Series send none.
C7_OneQueryPerExecute ==
    /\ sent = executes
    /\ err = execErr

C7_FailedExecute ==
    op = "Execute" /\ executes = 2 /\ err = "timeout" /\ sent = 2

\* C8: the rules are tried in order and the first whose present fields all
\* match decides; a later matching rule never changes the result, and with no
\* matching rule the configured direction is used.
C8_FirstMatchingRuleWins ==
    first.done =>
        /\ checkReverses(first.query) = Ruled(first.query)
        /\ Ruled(first.query) # queryAuto => first.value = Ruled(first.query)

C8_TwoRulesMatchAndDisagree ==
    /\ first.done /\ Len(confReverses) = 2
    /\ Matching(first.query) = {1, 2}
    /\ confReverses[1].Reverse = "direct" /\ confReverses[2].Reverse = "reversed"
    /\ confReverses[1].Suffix # <<>>
    /\ reverse = queryDirect

\* C9: List and Series leave the body, the direction and useDaily as they
\* are and send no query, so repeated calls return the same rows.
C9_ListChangesNothing ==
    [][op' \in ListOps =>
          /\ body' = body /\ reverse' = reverse /\ useDaily' = useDaily
          /\ sent' = sent
          /\ op' = op => rows' = rows]_vars

C9_SeriesAfterExecute ==
    /\ op = "Series" /\ executes = 1 /\ err = "nil"
    /\ reverse = queryReversed /\ Len(rows.rows) > 0

\* C10: a non-nil body never meets an unresolved direction, the decoder
\* never decides the direction, and it un-reverses the rows exactly when the
\* query behind the body carried a reversed pattern and offset 10000 or 30000.
C10_DecoderMatchesQuery ==
    /\ ~body.isNil => reverse # queryAuto
    /\ first.done => first.by \notin ListOps
    /\ sent > 0 =>
          /\ sentQ.reversed <=> sentQ.levelOffset \in {10000, 30000}
          /\ sentQ.where.Path = IF sentQ.reversed THEN ReverseString(arg.query)
                                ELSE arg.query
    /\ (op \in ListOps /\ ~body.isNil) => (unreversed <=> sentQ.reversed)

C10_UnreversedAfterSecondExecute ==
    /\ op = "List" /\ executes = 2 /\ unreversed
    /\ sentQ.levelOffset = 30000
    /\ arg.query # first.query
    /\ Len(rows.rows) > 0

====
